---- MODULE Spec2Model ----
(***************************************************************************)
(* A model of the wm-cli project generator: the prompt collector           *)
(* (createProject), the destination validation (setupProjectDirectory),    *)
(* the directory/file materializer (scaffoldProject and the create*        *)
(* functions it calls), the dependency installer, the post-install tooling *)
(* (setupAdditionalTools, installShadcnComponents) and the final report.   *)
(*                                                                         *)
(* A path is a sequence of segments, <<"app", "page.tsx">>; the empty      *)
(* sequence is the directory the process was started in.  The disk is the  *)
(* pair of sets dirs (directories) and files (regular files).              *)
(***************************************************************************)
EXTENDS Integers, Sequences, FiniteSets, TLC

VARIABLES
  pc,          \* position of the run: the next step of createProject / scaffoldProject
  targetDir,   \* process.argv[2], or NoArg
  platform,    \* process.platform, once the run has read it (NotRead before)
  response,    \* the answers object returned by prompts()
  cancelledAt, \* the question the operator aborted at (NotCancelled: none); not
               \* visible to the program
  config,      \* the ProjectConfig record handed to scaffoldProject
  cwd,         \* process.cwd(), relative to the start directory
  dirs,        \* directories on disk
  files,       \* regular files on disk
  dirs0,       \* directories on disk when the process started
  files0,      \* regular files on disk when the process started
  written,     \* files this run wrote
  packageJson, \* entries of the generated package.json (NoFile before it is written)
  execs,       \* subprocess commands invoked so far, in order
  shadcnQueue, \* componentsArray entries the add loop has not reached yet
  log,         \* how many times each console message was printed
  exitCode,    \* Running while the process lives, then its exit status
  data,        \* useTableState: the rows passed to the generated hook
  tableState,  \* useTableState: the useState cells as of the last render
  pendingState,\* useTableState: the cells once the queued updates are applied
  batched      \* useTableState: setter calls made since the last render

vars == <<pc, targetDir, platform, response, cancelledAt, config, cwd, dirs, files, dirs0, files0,
          written, packageJson, execs, shadcnQueue, log, exitCode,
          data, tableState, pendingState, batched>>

\* the cells of the generated useTableState hook
tableVars == <<data, tableState, pendingState, batched>>

\* the command's own variables
runVars == <<targetDir, platform, response, cancelledAt, config, cwd, dirs, files, dirs0,
             files0, written, packageJson, execs, shadcnQueue, log, exitCode>>

----------------------------------------------------------------------------
(* Bounds of the exploration *)

\* most options ticked over the four multiselect prompts of one explored full run
MaxRunFlags == 1
\* most feature and component flags set in one explored scaffolding
MaxFlags == 3
\* most entries present in the start directory before the run
MaxPreexisting == 1

----------------------------------------------------------------------------
(* Values *)

NoArg == "<no-arg>"
JsUndefined == "<undefined>"
JsFalse == "<false>"
NoFile == {"<no-file>"}
NoConfig == [none |-> TRUE]
NotRead == "<not-read>"
NotMounted == "<not-mounted>"
Platforms == {"win32", "linux"}
Running == -1

RangeOfFn(f) == {f[x] : x \in DOMAIN f}
RangeOf(s) == {s[i] : i \in 1..Len(s)}

Features == {"database", "docker", "husky", "linting", "nodemailer", "betterAuth"}
Components == {"dataTable", "customInputs", "fileUpload", "dateTimeInput", "dateRangeInput",
               "numberInput", "priceInput", "phoneInput", "radioGroupInput"}
HookNames == {"useClickAway", "useContinuousRetry", "useCopyToClipboard", "useDebounce",
              "useEventListener", "useGeolocation", "useHover", "useIntersectionObserver",
              "useIsClient", "useIsFirstRender", "useKeyPress", "useLocalStorage",
              "useLongPress", "useMediaQuery", "useMouse", "useOrientation", "usePageLeave",
              "useSessionStorage", "useThrottle", "useTimeout", "useToggle",
              "useWindowScroll", "useWindowSize"}
ServerActions == {"contacts"}
PackageManagers == {"pnpm", "yarn", "npm"}
ReactVersions == {"18", "19"}

\* the hooks the operator toggles in the modelled runs: one preselected, one not
OfferedHooks == {"useDebounce", "useHover"}

\* the hooks preselected by the prompt (selected: true)
DefaultHooks == {"useDebounce", "useIsClient", "useLocalStorage", "useMediaQuery", "useToggle"}

----------------------------------------------------------------------------
(* The file system: fs-extra's ensureDirSync, writeFileSync, existsSync *)

\* one file-system call of a create* function
Mkdir(p) == [op |-> "mkdir", path |-> p]
WriteFile(p) == [op |-> "write", path |-> p]

Prefixes(p) == {SubSeq(p, 1, i) : i \in 1..Len(p)}
Parent(p) == SubSeq(p, 1, Len(p) - 1)

\* ensureDirSync(p): creates p and every missing ancestor
EnsureDir(ds, p) == ds \cup Prefixes(p)

\* writeFileSync(p) throws ENOENT when the directory of p does not exist
CanWrite(ds, p) == Parent(p) = <<>> \/ Parent(p) \in ds

ExistsSync(ds, fs, p) == p \in ds \/ p \in fs

\* Runs the calls of one function in order, from the working directory wd,
\* and stops at the first call that throws.
RECURSIVE RunOps(_, _, _)
RunOps(st, wd, ops) ==
  IF ops = <<>> \/ ~st.ok THEN st
  ELSE LET o == Head(ops)
           p == wd \o o.path
       IN IF o.op = "mkdir"
          THEN RunOps([st EXCEPT !.dirs = EnsureDir(@, p)], wd, Tail(ops))
          ELSE IF CanWrite(st.dirs, p)
               THEN RunOps([st EXCEPT !.files = @ \cup {p},
                                      !.written = @ \cup {p}], wd, Tail(ops))
               ELSE [st EXCEPT !.ok = FALSE]

----------------------------------------------------------------------------
(* The materializer: the file-system calls of each create* function, in the
   order the function makes them.  f is the set of feature flags that are
   true, c the set of component flags that are true. *)

InputsDir == <<"components", "shared", "inputs">>
DataTableDir == <<"components", "shared", "data-table">>

\* the base folders of createFolderStructure
BaseFolders ==
  << <<"actions">>, <<"app">>, <<"components", "ui">>, <<"constants">>, <<"contexts">>,
     <<"hooks">>, <<"lib">>, <<"lib", "security">>, <<"providers">>,
     <<"public", "images">>, <<"public", "icons">>, <<"schemas">>, <<"stores">>,
     <<"types">>, <<"utils">> >>

\* the component flags that make createFolderStructure add components/shared/inputs
NeedsInputsFolderCustomOnly(c) == "customInputs" \in c
NeedsInputsFolder(c) ==
  c \cap {"customInputs", "fileUpload", "dateTimeInput", "dateRangeInput",
          "numberInput", "priceInput", "phoneInput", "radioGroupInput"} # {}

MkdirAll(ps) == [i \in 1..Len(ps) |-> Mkdir(ps[i])]
WriteAll(dir, names) == [i \in 1..Len(names) |-> WriteFile(dir \o <<names[i]>>)]

createFolderStructure(f, c) ==
  MkdirAll(BaseFolders
           \o (IF NeedsInputsFolder(c) THEN << InputsDir >> ELSE << >>)
           \o (IF "dataTable" \in c
               THEN << DataTableDir \o <<"components">>, DataTableDir \o <<"hooks">>,
                       DataTableDir \o <<"utils">>, DataTableDir \o <<"types">> >>
               ELSE << >>)
           \o (IF "database" \in f THEN << <<"prisma">> >> ELSE << >>))

createPackageJsonOps == << WriteFile(<<"package.json">>) >>

createConfigFiles ==
  WriteAll(<<>>, <<"next.config.js", "tsconfig.json", "tailwind.config.js",
                   "postcss.config.js", ".prettierrc", ".eslintrc.json",
                   ".env.example", ".gitignore">>)

\* the variables of the .env.example text createConfigFiles writes
envExample ==
  {"DATABASE_URL", "BETTER_AUTH_URL", "NEXT_PUBLIC_APP_URL", "BETTER_AUTH_SECRET",
   "GOOGLE_CLIENT_ID", "GOOGLE_CLIENT_SECRET", "SMTP_HOST", "SMTP_PORT", "SMTP_USER",
   "SMTP_PASSWORD", "SMTP_FROM_NAME", "SMTP_FROM_EMAIL"}

createCoreFiles(f) ==
  << WriteFile(<<"app", "globals.css">>), WriteFile(<<"middleware.ts">>) >>

createCustomComponents ==
  << WriteFile(InputsDir \o <<"TextInput.tsx">>),
     WriteFile(InputsDir \o <<"CheckboxInput.tsx">>),
     WriteFile(<<"components", "shared", "Container.tsx">>),
     WriteFile(<<"components", "shared", "Spinner.tsx">>) >>

createSharedInputs(c) ==
  (IF "customInputs" \in c
   THEN WriteAll(InputsDir, <<"SelectInput.tsx", "PasswordInput.tsx", "TextareaInput.tsx">>)
   ELSE << >>)
  \o (IF "fileUpload" \in c THEN WriteAll(InputsDir, <<"FileUpload.tsx">>) ELSE << >>)
  \o (IF "dateTimeInput" \in c THEN WriteAll(InputsDir, <<"DateTimeInput.tsx">>) ELSE << >>)
  \o (IF "radioGroupInput" \in c THEN WriteAll(InputsDir, <<"RadioGroupInput.tsx">>) ELSE << >>)

createDataTableUtilities ==
  WriteAll(DataTableDir \o <<"utils">>, <<"sorting.ts", "filtering.ts", "pagination.ts">>)

createDataTableComponents ==
  WriteAll(DataTableDir \o <<"components">>,
           <<"TableEmptyState.tsx", "TableErrorState.tsx", "TableLoadingState.tsx",
             "TablePagination.tsx", "TableFilters.tsx">>)

createDataTableHooks ==
  WriteAll(DataTableDir \o <<"hooks">>, <<"useTableState.ts">>)

createSharedDataTable ==
  << WriteFile(DataTableDir \o <<"types", "index.ts">>),
     WriteFile(DataTableDir \o <<"index.tsx">>),
     WriteFile(DataTableDir \o <<"DataTable.tsx">>) >>
  \o createDataTableUtilities \o createDataTableComponents \o createDataTableHooks

createSharedComponents(c) ==
  (IF c \cap {"customInputs", "fileUpload", "dateTimeInput", "radioGroupInput"} # {}
   THEN createSharedInputs(c) ELSE << >>)
  \o (IF "dataTable" \in c THEN createSharedDataTable ELSE << >>)

createLibFiles(f) ==
  WriteAll(<<"lib">>, <<"utils.ts", "create-safe-action.ts", "db.ts">>)
  \o (IF "nodemailer" \in f THEN WriteAll(<<"lib">>, <<"email.ts">>) ELSE << >>)
  \o WriteAll(<<"lib">>, <<"auth.ts", "auth-client.ts">>)

createActionsExample ==
  << Mkdir(<<"actions", "getUsers">>) >>
  \o WriteAll(<<"actions", "getUsers">>, <<"schemas.ts", "types.ts", "index.ts">>)

\* the contact module of createActions(config); scaffoldProject calls
\* createActionsExample directly and never this
createContactActions ==
  MkdirAll(<< <<"actions", "contacts", "submitContact">>,
              <<"actions", "contacts", "getAllContacts">>,
              <<"actions", "contacts", "getContactById">>,
              <<"actions", "contacts", "deleteContactById">> >>)
  \o WriteAll(<<"actions", "contacts", "submitContact">>, <<"schema.ts", "types.ts", "index.ts">>)
  \o WriteAll(<<"actions", "contacts", "getAllContacts">>, <<"schema.ts", "types.ts", "index.ts">>)
  \o WriteAll(<<"actions", "contacts", "getContactById">>, <<"schema.ts", "types.ts", "index.ts">>)
  \o WriteAll(<<"actions", "contacts", "deleteContactById">>,
              <<"schema.ts", "types.ts", "index.ts">>)

createStores == WriteAll(<<"stores">>, <<"formStore.ts", "resetStores.ts">>)

\* createHooks(), the variant scaffoldProject calls
createHooks == WriteAll(<<"hooks">>, <<"use-actions.ts", "use-custom-navigate.ts">>)

\* the "Generate selected hooks" loop of createHooks(config), which nothing
\* calls; <<"hooks", h>> stands for hooks/<h>.ts
selectedHookFiles(hooks) == {<<"hooks", h>> : h \in hooks}

createAppFiles(f) ==
  WriteAll(<<"app">>, <<"layout.tsx", "page.tsx", "error.tsx", "loading.tsx",
                        "not-found.tsx", "robots.ts", "sitemap.ts">>)

createConstants == WriteAll(<<"constants">>, <<"nav.constants.ts", "index.ts">>)
createTypes == WriteAll(<<"types">>, <<"users.types.ts", "index.ts">>)
createSchemas == WriteAll(<<"schemas">>, <<"users.schemas.ts", "index.ts">>)

createDockerFiles == WriteAll(<<>>, <<"Dockerfile", "docker-compose.yml", ".dockerignore">>)

createPrismaFiles == WriteAll(<<"prisma">>, <<"schema.prisma", "seed.ts">>)

\* the model blocks of the schema text createPrismaFiles writes
prismaSchemaModels == {"User", "Account", "Session", "Address"}

----------------------------------------------------------------------------
(* createPackageJson: the keys of the generated package.json *)

\* "Add component-specific dependencies"
componentDependenciesNone(c) == {}
componentDependencies(c) ==
  (IF "priceInput" \in c THEN {"dependencies.react-number-format"} ELSE {})
  \cup (IF "phoneInput" \in c THEN {"dependencies.react-phone-number-input"} ELSE {})

createPackageJson(projectName, packageManager, f, c) ==
  {"name", "version", "private", "scripts.dev", "scripts.build", "scripts.start"}
  \cup (IF "linting" \in f
        THEN {"scripts.lint", "scripts.lint:fix", "scripts.format", "scripts.format:check",
              "scripts.type-check"}
        ELSE {})
  \cup (IF "database" \in f
        THEN {"scripts.setup", "scripts.db:push", "scripts.db:seed", "scripts.db:generate",
              "scripts.db:studio", "scripts.dev:studio"}
        ELSE {})
  \cup (IF "husky" \in f THEN {"scripts.prepare"} ELSE {})
  \cup {"dependencies.next", "dependencies.react", "dependencies.react-dom",
        "dependencies.typescript", "dependencies.@types/node", "dependencies.@types/react",
        "dependencies.@types/react-dom", "dependencies.tailwindcss",
        "dependencies.@tailwindcss/postcss", "dependencies.autoprefixer",
        "dependencies.postcss", "dependencies.class-variance-authority",
        "dependencies.clsx", "dependencies.tailwind-merge",
        "dependencies.tailwindcss-animate", "dependencies.lucide-react",
        "dependencies.zustand", "dependencies.react-hook-form",
        "dependencies.@hookform/resolvers", "dependencies.zod", "dependencies.date-fns"}
  \cup (IF "betterAuth" \in f THEN {"dependencies.better-auth"} ELSE {})
  \cup (IF "database" \in f THEN {"dependencies.@prisma/client"} ELSE {})
  \cup (IF "nodemailer" \in f
        THEN {"dependencies.nodemailer", "dependencies.@types/nodemailer"} ELSE {})
  \cup componentDependencies(c)
  \cup (IF "database" \in f
        THEN {"devDependencies.prisma", "devDependencies.tsx", "devDependencies.concurrently"}
        ELSE {})
  \cup (IF "linting" \in f
        THEN {"devDependencies.eslint", "devDependencies.eslint-config-next",
              "devDependencies.@typescript-eslint/eslint-plugin",
              "devDependencies.@typescript-eslint/parser",
              "devDependencies.eslint-plugin-react",
              "devDependencies.eslint-plugin-react-hooks", "devDependencies.prettier",
              "devDependencies.prettier-plugin-tailwindcss"}
        ELSE {})
  \cup (IF "husky" \in f THEN {"devDependencies.husky", "devDependencies.lint-staged"} ELSE {})
  \cup (IF "husky" \in f /\ "linting" \in f THEN {"lint-staged"} ELSE {})
  \cup (IF "database" \in f THEN {"prisma.seed"} ELSE {})

----------------------------------------------------------------------------
(* Subprocess commands (execSync) *)

installCommandNpmOnly(packageManager) == <<"npm", "install">>
installCommand(packageManager) ==
  IF packageManager = "yarn" THEN <<"yarn", "install">>
  ELSE IF packageManager = "pnpm" THEN <<"pnpm", "install">>
  ELSE <<"npm", "install">>

chmodCommand == <<"chmod", "+x", ".husky/pre-commit">>
initCommand == <<"npx", "shadcn@latest", "init", "--yes", "--force">>
addCommand(component) == <<"npx", "shadcn@latest", "add", component, "--yes">>

IsAdd(cmd) == Len(cmd) = 5 /\ cmd[3] = "add"

\* Set.prototype.add on an insertion-ordered Set, kept as the sequence Array.from gives
SetAddNoDedup(s, x) == Append(s, x)
SetAdd(s, x) == IF x \in RangeOf(s) THEN s ELSE Append(s, x)

RECURSIVE SetAddAll(_, _)
SetAddAll(s, xs) == IF xs = <<>> THEN s ELSE SetAddAll(SetAdd(s, Head(xs)), Tail(xs))

\* componentsArray of installShadcnComponents
shadcnComponentsNoCore(c) ==
  IF "dataTable" \in c THEN SetAddAll(<<>>, <<"table", "checkbox">>) ELSE <<>>
shadcnComponents(c) ==
  LET s0 == SetAddAll(<<>>, <<"form", "input", "label", "button">>)
      s1 == IF "customInputs" \in c THEN SetAddAll(s0, <<"select", "textarea">>) ELSE s0
      s2 == IF "dataTable" \in c THEN SetAddAll(s1, <<"table", "checkbox">>) ELSE s1
      s3 == IF "fileUpload" \in c THEN SetAddAll(s2, <<"tooltip">>) ELSE s2
      s4 == IF "dateTimeInput" \in c THEN SetAddAll(s3, <<"popover", "calendar">>) ELSE s3
      s5 == IF "dateRangeInput" \in c THEN SetAddAll(s4, <<"popover", "calendar">>) ELSE s4
      s6 == IF "phoneInput" \in c
            THEN SetAddAll(s5, <<"command", "popover", "scroll-area">>) ELSE s5
      s7 == IF "radioGroupInput" \in c THEN SetAddAll(s6, <<"radio-group">>) ELSE s6
  IN s7

----------------------------------------------------------------------------
(* The prompt collector: createProject *)

CurrentDirName == "workdir"
NameAnswers == {"", ".", "./", "my-app", CurrentDirName}
Questions == <<"projectName", "packageManager", "reactVersion", "features", "components",
               "hooks", "serverActions">>
NotCancelled == Len(Questions) + 1

\* the validate callback of the projectName question: TRUE when the value is accepted
validate(value, isCurrentDirEmpty) ==
  IF value = "" /\ ~isCurrentDirEmpty THEN FALSE
  ELSE IF value = "." \/ value = "./" THEN TRUE
  ELSE value # ""

\* the subsets of S with at most n elements
RECURSIVE UpTo(_, _)
UpTo(S, n) == IF n = 0 THEN {{}}
              ELSE LET prev == UpTo(S, n - 1)
                   IN prev \cup {x \cup {a} : x \in prev, a \in S}

Options == ({"features"} \X Features) \cup ({"components"} \X Components)
           \cup ({"hooks"} \X OfferedHooks) \cup ({"serverActions"} \X ServerActions)
Picked(sel, group) == {o[2] : o \in {x \in sel : x[1] = group}}

NoResponse == [keys |-> {}]

\* prompts(): the questions are asked in order, the projectName question only
\* without a directory argument.  When the operator aborts a question, prompts
\* resolves with the answers given so far: the aborted question and the later
\* ones have no key in the answers object.
Answers(asked, cancelAt, name, pm, rv, sel) ==
  LET keys == {Questions[i] : i \in {j \in asked : j < cancelAt}}
  IN [keys |-> keys,
      projectName |-> IF "projectName" \in keys THEN name ELSE JsUndefined,
      packageManager |-> IF "packageManager" \in keys THEN pm ELSE JsUndefined,
      reactVersion |-> IF "reactVersion" \in keys THEN rv ELSE JsUndefined,
      features |-> IF "features" \in keys THEN Picked(sel, "features") ELSE {},
      components |-> IF "components" \in keys THEN Picked(sel, "components") ELSE {},
      hooks |-> IF "hooks" \in keys THEN Picked(sel, "hooks") ELSE {},
      serverActions |-> IF "serverActions" \in keys THEN Picked(sel, "serverActions") ELSE {}]

isCurrentDirEmpty == dirs = {} /\ files = {}

LogTags == {"cancelled", "error", "conflict", "exists", "install-ok", "install-failed",
            "husky-ok", "chmod-failed", "husky-failed", "shadcn-ok", "shadcn-failed",
            "add-ok", "add-failed", "no-components", "success", "cd"}
           \cup {"pnpm run setup", "yarn run setup", "npm run setup",
                 "pnpm run dev", "yarn run dev", "npm run dev"}
Say(l, tag) == [l EXCEPT ![tag] = @ + 1]
RECURSIVE SayAll(_, _)
SayAll(l, tags) == IF tags = <<>> THEN l ELSE SayAll(Say(l, Head(tags)), Tail(tags))

Init ==
  /\ pc = "start"
  /\ targetDir \in {NoArg, "my-app"}
  /\ platform = NotRead
  /\ response = NoResponse
  /\ cancelledAt = NotCancelled
  /\ config = NoConfig
  /\ cwd = <<>>
  /\ \E pre \in UpTo({<<"package.json">>, <<"next.config.js">>, <<"tsconfig.json">>,
                      <<".gitignore">>, <<"my-app">>}, MaxPreexisting) :
       /\ dirs0 = pre \cap {<<"my-app">>}
       /\ files0 = pre \ {<<"my-app">>}
  /\ dirs = dirs0
  /\ files = files0
  /\ written = {}
  /\ packageJson = NoFile
  /\ execs = <<>>
  /\ shadcnQueue = <<>>
  /\ log = [t \in LogTags |-> 0]
  /\ exitCode = Running
  /\ data = <<>>
  /\ tableState = NotMounted
  /\ pendingState = NotMounted
  /\ batched = 0

\* createProject up to the end of `await prompts([...])`
Prompts ==
  /\ pc = "start"
  /\ LET asked == IF targetDir = NoArg THEN 1..Len(Questions) ELSE 2..Len(Questions)
     IN \E cancelAt \in asked \cup {NotCancelled},
           name \in {n \in NameAnswers : validate(n, isCurrentDirEmpty) = TRUE},
           pm \in PackageManagers, rv \in ReactVersions,
           sel \in UpTo(Options, MaxRunFlags) :
          /\ response' = Answers(asked, cancelAt, name, pm, rv, sel)
          /\ cancelledAt' = cancelAt
  /\ pc' = "answered"
  /\ UNCHANGED <<tableVars, targetDir, platform, config, cwd, dirs, files, dirs0, files0, written, packageJson,
                 execs, shadcnQueue, log, exitCode>>

\* the `response.projectName === false` test
CancelDetected(r) == r.projectName = JsFalse

\* reading .includes of a missing answer throws a TypeError
ConfigThrows(r) == {"features", "components", "hooks", "serverActions"} \ r.keys # {}

\* `!value` of a JavaScript string or undefined
Falsy(v) == v = "" \/ v = JsUndefined

initInCurrentDirOfAnyDir(td, r, empty) ==
  /\ td = NoArg
  /\ \/ Falsy(r.projectName)
     \/ r.projectName \in {".", "./", CurrentDirName}
initInCurrentDirOf(td, r, empty) ==
  /\ td = NoArg
  /\ \/ Falsy(r.projectName)
     \/ r.projectName = "."
     \/ r.projectName = "./"
     \/ (empty /\ r.projectName = CurrentDirName)

projectNameOf(td, r) ==
  IF td # NoArg THEN td
  ELSE IF ~Falsy(r.projectName) THEN r.projectName
  ELSE CurrentDirName

\* the ProjectConfig record (reactVersion, which nothing reads, is left out)
buildConfig(td, r, empty) ==
  [projectName |-> IF initInCurrentDirOf(td, r, empty) THEN CurrentDirName
                   ELSE projectNameOf(td, r),
   packageManager |-> r.packageManager,
   initInCurrentDir |-> initInCurrentDirOf(td, r, empty),
   features |-> r.features,
   components |-> r.components,
   hooks |-> r.hooks,
   serverActions |-> r.serverActions]

\* the process ends: by process.exit(code), or by running out of work (status 0)
Exit(code) == pc' = "done" /\ exitCode' = code

BuildConfigAskAgain ==
  /\ pc = "answered"
  /\ IF CancelDetected(response) \/ ConfigThrows(response)
     THEN /\ pc' = "start"
          /\ response' = NoResponse
          /\ cancelledAt' = NotCancelled
          /\ UNCHANGED <<config, log, exitCode>>
     ELSE /\ config' = buildConfig(targetDir, response, isCurrentDirEmpty)
          /\ response' = NoResponse
          /\ pc' = "setupProjectDirectory"
          /\ UNCHANGED <<cancelledAt, log, exitCode>>
  /\ UNCHANGED <<tableVars, targetDir, platform, cwd, dirs, files, dirs0, files0, written, packageJson,
                 execs, shadcnQueue>>

\* createProject after the prompts: the cancellation test and the config record.
\* A throw rejects createProject(); .catch(console.error) prints it and the
\* process ends with status 0.
BuildConfig ==
  /\ pc = "answered"
  /\ IF CancelDetected(response)
     THEN /\ log' = Say(log, "cancelled")
          /\ Exit(1)
          /\ UNCHANGED <<config, response>>
     ELSE IF ConfigThrows(response)
     THEN /\ log' = Say(log, "error")
          /\ Exit(0)
          /\ UNCHANGED <<config, response>>
     ELSE /\ config' = buildConfig(targetDir, response, isCurrentDirEmpty)
          /\ response' = NoResponse   \* the answers are not read again
          /\ pc' = "setupProjectDirectory"
          /\ UNCHANGED <<log, exitCode>>
  /\ UNCHANGED <<tableVars, targetDir, platform, cancelledAt, cwd, dirs, files, dirs0, files0, written, packageJson,
                 execs, shadcnQueue>>

----------------------------------------------------------------------------
(* Destination validation: setupProjectDirectory *)

conflictingFiles == {<<"package.json">>, <<"next.config.js">>, <<"tsconfig.json">>}

conflictsManifestOnly(ds, fs, wd) == {m \in {<<"package.json">>} : ExistsSync(ds, fs, wd \o m)}
conflicts(ds, fs, wd) == {m \in conflictingFiles : ExistsSync(ds, fs, wd \o m)}

targetExistsFileOnly(ds, fs, wd, projectName) == wd \o <<projectName>> \in fs
targetExists(ds, fs, wd, projectName) == ExistsSync(ds, fs, wd \o <<projectName>>)

SetupProjectDirectoryNoChdir ==
  /\ pc = "setupProjectDirectory"
  /\ IF config.initInCurrentDir
     THEN IF conflicts(dirs, files, cwd) # {}
          THEN log' = Say(log, "conflict") /\ Exit(1) /\ UNCHANGED dirs
          ELSE pc' = "createPackageJson" /\ UNCHANGED <<dirs, log, exitCode>>
     ELSE IF targetExists(dirs, files, cwd, config.projectName)
          THEN log' = Say(log, "exists") /\ Exit(1) /\ UNCHANGED dirs
          ELSE /\ dirs' = EnsureDir(dirs, cwd \o <<config.projectName>>)
               /\ pc' = "createPackageJson"
               /\ UNCHANGED <<log, exitCode>>
  /\ UNCHANGED <<tableVars, targetDir, platform, response, cancelledAt, config, cwd, files, dirs0, files0,
                 written, packageJson, execs, shadcnQueue>>

SetupProjectDirectory ==
  /\ pc = "setupProjectDirectory"
  /\ IF config.initInCurrentDir
     THEN IF conflicts(dirs, files, cwd) # {}
          THEN /\ log' = Say(log, "conflict")
               /\ Exit(1)
               /\ UNCHANGED <<cwd, dirs>>
          ELSE /\ pc' = "createPackageJson"
               /\ UNCHANGED <<cwd, dirs, log, exitCode>>
     ELSE IF targetExists(dirs, files, cwd, config.projectName)
          THEN /\ log' = Say(log, "exists")
               /\ Exit(1)
               /\ UNCHANGED <<cwd, dirs>>
          ELSE /\ dirs' = EnsureDir(dirs, cwd \o <<config.projectName>>)
               /\ cwd' = cwd \o <<config.projectName>>
               /\ pc' = "createPackageJson"
               /\ UNCHANGED <<log, exitCode>>
  /\ UNCHANGED <<tableVars, targetDir, platform, response, cancelledAt, config, files, dirs0, files0, written, packageJson,
                 execs, shadcnQueue>>

----------------------------------------------------------------------------
(* scaffoldProject: one action per call, in the order of the source *)

\* One create* call: its file-system calls run in order; a throw rejects
\* scaffoldProject and createProject, .catch(console.error) prints the error
\* and the process ends with status 0.
FsCall(here, ops, next) ==
  /\ pc = here
  /\ LET st == RunOps([dirs |-> dirs, files |-> files, written |-> written, ok |-> TRUE],
                      cwd, ops)
     IN /\ dirs' = st.dirs
        /\ files' = st.files
        /\ written' = st.written
        /\ IF st.ok
           THEN pc' = next /\ UNCHANGED <<log, exitCode>>
           ELSE log' = Say(log, "error") /\ Exit(0)
  /\ UNCHANGED <<tableVars, targetDir, platform, response, cancelledAt, config, cwd, dirs0, files0, execs, shadcnQueue>>

CreatePackageJson ==
  /\ FsCall("createPackageJson", createPackageJsonOps, "createFolderStructure")
  /\ packageJson' = createPackageJson(config.projectName, config.packageManager,
                                      config.features, config.components)

CreateFolderStructure ==
  /\ FsCall("createFolderStructure",
            createFolderStructure(config.features, config.components), "createConfigFiles")
  /\ UNCHANGED packageJson

CreateConfigFiles ==
  /\ FsCall("createConfigFiles", createConfigFiles, "createCoreFiles")
  /\ UNCHANGED packageJson

CreateCoreFiles ==
  /\ FsCall("createCoreFiles", createCoreFiles(config.features), "createCustomComponents")
  /\ UNCHANGED packageJson

CreateCustomComponents ==
  /\ FsCall("createCustomComponents",
            IF "customInputs" \in config.components THEN createCustomComponents ELSE << >>,
            "createSharedComponents")
  /\ UNCHANGED packageJson

CreateSharedComponents ==
  /\ FsCall("createSharedComponents", createSharedComponents(config.components),
            "createLibFiles")
  /\ UNCHANGED packageJson

CreateLibFiles ==
  /\ FsCall("createLibFiles", createLibFiles(config.features), "createActionsExample")
  /\ UNCHANGED packageJson

CreateActionsExample ==
  /\ FsCall("createActionsExample", createActionsExample, "createStores")
  /\ UNCHANGED packageJson

CreateStores ==
  /\ FsCall("createStores", createStores, "createHooks")
  /\ UNCHANGED packageJson

CreateHooks ==
  /\ FsCall("createHooks", createHooks, "createAppFiles")
  /\ UNCHANGED packageJson

CreateAppFiles ==
  /\ FsCall("createAppFiles", createAppFiles(config.features), "createConstants")
  /\ UNCHANGED packageJson

CreateConstants ==
  /\ FsCall("createConstants", createConstants, "createTypes")
  /\ UNCHANGED packageJson

CreateTypes ==
  /\ FsCall("createTypes", createTypes, "createSchemas")
  /\ UNCHANGED packageJson

CreateSchemas ==
  /\ FsCall("createSchemas", createSchemas, "createDockerFiles")
  /\ UNCHANGED packageJson

CreateDockerFiles ==
  /\ FsCall("createDockerFiles",
            IF "docker" \in config.features THEN createDockerFiles ELSE << >>,
            "createPrismaFiles")
  /\ UNCHANGED packageJson

CreatePrismaFiles ==
  /\ FsCall("createPrismaFiles",
            IF "database" \in config.features THEN createPrismaFiles ELSE << >>,
            "installPackages")
  /\ UNCHANGED packageJson

----------------------------------------------------------------------------
(* Dependency installer and post-install tooling *)

InstallPackagesUncaught ==
  /\ pc = "installPackages"
  /\ execs' = Append(execs, installCommand(config.packageManager))
  /\ \E ok \in BOOLEAN :
       IF ok THEN log' = Say(log, "install-ok") /\ pc' = "setupAdditionalTools"
                  /\ UNCHANGED exitCode
       ELSE log' = SayAll(log, <<"install-failed", "error">>) /\ Exit(0)
  /\ UNCHANGED <<tableVars, targetDir, platform, response, cancelledAt, config, cwd, dirs, files, dirs0, files0,
                 written, packageJson, shadcnQueue>>

\* installPackages inside the try/catch of scaffoldProject: the subprocess
\* exits zero or non-zero; the rethrown error is swallowed by the caller
InstallPackages ==
  /\ pc = "installPackages"
  /\ execs' = Append(execs, installCommand(config.packageManager))
  /\ \E ok \in BOOLEAN :
       log' = Say(log, IF ok THEN "install-ok" ELSE "install-failed")
  /\ pc' = "setupAdditionalTools"
  /\ UNCHANGED <<tableVars, targetDir, platform, response, cancelledAt, config, cwd, dirs, files, dirs0, files0, written,
                 packageJson, shadcnQueue, exitCode>>

\* `if (process.platform !== 'win32')`
chmodAttemptedEverywhere(p) == TRUE
chmodAttempted(p) == p # "win32"

\* the command line of the pre-commit hook text
preCommitHook(packageManager) ==
  IF packageManager = "yarn" THEN <<"yarn", "lint-staged">>
  ELSE IF packageManager = "pnpm" THEN <<"pnpm", "lint-staged">>
  ELSE <<"npx", "lint-staged">>

huskyOps == << Mkdir(<<".husky">>), WriteFile(<<".husky", "pre-commit">>) >>

\* `if (features.husky) await setupAdditionalTools(packageManager)`.
\* The outer try covers ensureDirSync and writeFileSync: either may throw (the
\* directory is read-only, the disk is full), after `done` of the two calls
\* went through.  process.platform is read after the write.
SetupAdditionalTools ==
  /\ pc = "setupAdditionalTools"
  /\ IF "husky" \in config.features
     THEN \E done \in 0..Len(huskyOps) :
            LET st == RunOps([dirs |-> dirs, files |-> files, written |-> written,
                              ok |-> TRUE], cwd, SubSeq(huskyOps, 1, done))
            IN /\ dirs' = st.dirs
               /\ files' = st.files
               /\ written' = st.written
               /\ IF ~st.ok \/ done < Len(huskyOps)
                  THEN log' = Say(log, "husky-failed") /\ UNCHANGED <<execs, platform>>
                  ELSE \E p \in Platforms :
                         /\ platform' = p
                         /\ IF ~chmodAttempted(p)
                            THEN log' = Say(log, "husky-ok") /\ UNCHANGED execs
                            ELSE /\ execs' = Append(execs, chmodCommand)
                                 /\ \E ok \in BOOLEAN :
                                      log' = IF ok THEN Say(log, "husky-ok")
                                             ELSE SayAll(log, <<"chmod-failed", "husky-ok">>)
     ELSE UNCHANGED <<dirs, files, written, log, execs, platform>>
  /\ pc' = "installShadcnComponents"
  /\ UNCHANGED <<tableVars, targetDir, response, cancelledAt, config, cwd, dirs0, files0, packageJson,
                 shadcnQueue, exitCode>>

InstallShadcnComponentsAddAnyway ==
  /\ pc = "installShadcnComponents"
  /\ execs' = Append(execs, initCommand)
  /\ \E ok \in BOOLEAN :
       /\ log' = IF ok THEN log ELSE Say(log, "shadcn-failed")
       /\ shadcnQueue' = shadcnComponents(config.components)
       /\ pc' = "addComponent"
  /\ UNCHANGED <<tableVars, targetDir, platform, response, cancelledAt, config, cwd, dirs, files, dirs0,
                 files0, written, packageJson, exitCode>>

\* installShadcnComponents up to the add loop: the initializer, then the
\* resolved component set
InstallShadcnComponents ==
  /\ pc = "installShadcnComponents"
  /\ execs' = Append(execs, initCommand)
  /\ \E ok \in BOOLEAN :
       IF ~ok
       THEN /\ log' = Say(log, "shadcn-failed")
            /\ pc' = "displaySuccessMessage"
            /\ UNCHANGED shadcnQueue
       ELSE LET componentsArray == shadcnComponents(config.components)
            IN IF Len(componentsArray) = 0
               THEN /\ log' = Say(log, "no-components")
                    /\ pc' = "displaySuccessMessage"
                    /\ UNCHANGED shadcnQueue
               ELSE /\ shadcnQueue' = componentsArray
                    /\ pc' = "addComponent"
                    /\ UNCHANGED log
  /\ UNCHANGED <<tableVars, targetDir, platform, response, cancelledAt, config, cwd, dirs, files, dirs0, files0, written,
                 packageJson, exitCode>>

\* what the add loop does after one add subprocess ended: the queue left to do
afterAddBreak(queue, ok) == IF ok THEN Tail(queue) ELSE << >>
afterAdd(queue, ok) == Tail(queue)

\* one iteration of `for (const component of componentsArray)`, and the
\* success line once the loop is over
AddComponent ==
  /\ pc = "addComponent"
  /\ shadcnQueue # << >>
  /\ execs' = Append(execs, addCommand(Head(shadcnQueue)))
  /\ \E ok \in BOOLEAN :
       LET rest == afterAdd(shadcnQueue, ok)
           l == Say(log, IF ok THEN "add-ok" ELSE "add-failed")
       IN /\ shadcnQueue' = rest
          /\ IF rest = << >>
             THEN log' = Say(l, "shadcn-ok") /\ pc' = "displaySuccessMessage"
             ELSE log' = l /\ UNCHANGED pc
  /\ UNCHANGED <<tableVars, targetDir, platform, response, cancelledAt, config, cwd, dirs, files, dirs0, files0, written,
                 packageJson, exitCode>>

\* the `${packageManager} run setup` / `${packageManager} run dev` line
nextStepLineDev(packageManager, script) ==
  IF packageManager = "pnpm" THEN "pnpm run dev"
  ELSE IF packageManager = "yarn" THEN "yarn run dev" ELSE "npm run dev"
nextStepLine(packageManager, script) ==
  IF script = "setup"
  THEN (IF packageManager = "pnpm" THEN "pnpm run setup"
        ELSE IF packageManager = "yarn" THEN "yarn run setup" ELSE "npm run setup")
  ELSE (IF packageManager = "pnpm" THEN "pnpm run dev"
        ELSE IF packageManager = "yarn" THEN "yarn run dev" ELSE "npm run dev")

\* displaySuccessMessage, after which scaffoldProject and createProject return
\* and the process ends with status 0
DisplaySuccessMessage ==
  /\ pc = "displaySuccessMessage"
  /\ log' = SayAll(log, <<"success">>
                        \o (IF ~config.initInCurrentDir THEN <<"cd">> ELSE << >>)
                        \o (IF "database" \in config.features
                            THEN << nextStepLine(config.packageManager, "setup") >>
                            ELSE << nextStepLine(config.packageManager, "dev") >>))
  /\ Exit(0)
  /\ UNCHANGED <<tableVars, targetDir, platform, response, cancelledAt, config, cwd, dirs, files, dirs0, files0, written,
                 packageJson, execs, shadcnQueue>>

----------------------------------------------------------------------------
(* Specifications *)

Materialize ==
  \/ CreatePackageJson \/ CreateFolderStructure \/ CreateConfigFiles \/ CreateCoreFiles
  \/ CreateCustomComponents \/ CreateSharedComponents \/ CreateLibFiles
  \/ CreateActionsExample \/ CreateStores \/ CreateHooks \/ CreateAppFiles
  \/ CreateConstants \/ CreateTypes \/ CreateSchemas \/ CreateDockerFiles
  \/ CreatePrismaFiles

PostInstall ==
  \/ InstallPackages \/ SetupAdditionalTools \/ InstallShadcnComponents \/ AddComponent
  \/ DisplaySuccessMessage

Next == Prompts \/ BuildConfig \/ SetupProjectDirectory \/ Materialize \/ PostInstall

\* a whole run in which every prompt is eventually answered or aborted and
\* every subprocess eventually exits: the single thread always takes its next
\* step
SpecLive == Init /\ [][Next]_vars /\ WF_vars(Next)

\* a whole run of the command, from process start to exit
Spec == Init /\ [][Next]_vars

\* scaffoldProject called in an empty start directory with any configuration of
\* at most MaxFlags feature and component flags
InitScaffold ==
  /\ pc = "setupProjectDirectory"
  /\ targetDir \in {NoArg, "my-app"}
  /\ platform = NotRead
  /\ response = NoResponse
  /\ cancelledAt = NotCancelled
  /\ \E sel \in UpTo(Options, MaxFlags),
        pm \in PackageManagers :
       config = [projectName |-> IF targetDir = NoArg THEN CurrentDirName ELSE targetDir,
                 packageManager |-> pm,
                 initInCurrentDir |-> (targetDir = NoArg),
                 features |-> Picked(sel, "features"),
                 components |-> Picked(sel, "components"),
                 hooks |-> Picked(sel, "hooks"),
                 serverActions |-> Picked(sel, "serverActions")]
  /\ cwd = <<>>
  /\ dirs0 = {}
  /\ files0 = {}
  /\ dirs = {}
  /\ files = {}
  /\ written = {}
  /\ packageJson = NoFile
  /\ execs = <<>>
  /\ shadcnQueue = <<>>
  /\ log = [t \in LogTags |-> 0]
  /\ exitCode = Running
  /\ data = <<>>
  /\ tableState = NotMounted
  /\ pendingState = NotMounted
  /\ batched = 0

NextScaffold == SetupProjectDirectory \/ Materialize \/ PostInstall

SpecScaffold == InitScaffold /\ [][NextScaffold]_vars

----------------------------------------------------------------------------
(* The generated data-table hook, useTableState *)

MaxRows == 3
MaxPage == 3
MaxItemsPerPage == 2
MaxBatch == 2

\* text values are sequences of characters
toLowerCase(s) ==
  [i \in 1..Len(s) |-> IF s[i] = "A" THEN "a" ELSE IF s[i] = "B" THEN "b" ELSE s[i]]

includes(s, t) == \E i \in 0..(Len(s) - Len(t)) : SubSeq(s, i + 1, i + Len(t)) = t

charCode(c) == CASE c = "A" -> 65 [] c = "B" -> 66 [] c = "a" -> 97 [] c = "b" -> 98
                 [] c = "x" -> 120 [] c = "y" -> 121

RECURSIVE lessThan(_, _)
lessThan(a, b) ==
  IF a = <<>> THEN b # <<>>
  ELSE IF b = <<>> THEN FALSE
  ELSE IF Head(a) = Head(b) THEN lessThan(Tail(a), Tail(b))
  ELSE charCode(Head(a)) < charCode(Head(b))

Max(a, b) == IF a > b THEN a ELSE b
Min(a, b) == IF a < b THEN a ELSE b

\* the columns and the rows a caller may pass
columns == << [key |-> "name", searchable |-> TRUE],
              [key |-> "status", searchable |-> FALSE] >>
Fields == {"name", "status"}
Rows == { [name |-> <<"a">>, status |-> <<"x">>],
          [name |-> <<"A", "b">>, status |-> <<"y">>],
          [name |-> <<"b">>, status |-> <<"x">>] }
SearchTerms == { <<>>, <<"a">> }
FilterInputs == { <<>>, <<"x">> }
NoFilters == [k \in {} |-> <<>>]
NoField == "<null>"

\* columns without a dataType: parseValue is String(value).toLowerCase()
parseValue(value) == toLowerCase(value)

compareValues(a, b) ==
  LET aVal == parseValue(a)
      bVal == parseValue(b)
  IN IF lessThan(aVal, bVal) THEN -1 ELSE IF lessThan(bVal, aVal) THEN 1 ELSE 0

\* Array.prototype.sort is stable
RECURSIVE insertSorted(_, _, _, _)
insertSorted(sorted, row, field, direction) ==
  LET result == compareValues(Head(sorted)[field], row[field])
      signed == IF direction = "asc" THEN result ELSE 0 - result
  IN IF sorted = <<>> THEN <<row>>
     ELSE IF signed <= 0
          THEN <<Head(sorted)>> \o insertSorted(Tail(sorted), row, field, direction)
          ELSE <<row>> \o sorted

RECURSIVE sortData(_, _, _)
sortData(rows, field, direction) ==
  IF rows = <<>> THEN <<>>
  ELSE insertSorted(sortData(SubSeq(rows, 1, Len(rows) - 1), field, direction),
                    rows[Len(rows)], field, direction)

searchInRow(row, searchTerm, searchableColumns) ==
  \/ searchTerm = <<>>
  \/ \E key \in searchableColumns :
       includes(toLowerCase(row[key]), toLowerCase(searchTerm))

applyFilters(rows, filters) ==
  SelectSeq(rows, LAMBDA row :
    \A key \in DOMAIN filters :
      \/ filters[key] = <<>>
      \/ includes(IF key \in DOMAIN row THEN row[key] ELSE <<>>, filters[key]))

getFilteredData(rows, searchTerm, filters) ==
  LET searchableColumns == { columns[i].key : i \in { j \in 1..Len(columns) : columns[j].searchable } }
      found == IF searchTerm # <<>>
               THEN SelectSeq(rows, LAMBDA row : searchInRow(row, searchTerm, searchableColumns))
               ELSE rows
  IN applyFilters(found, filters)

\* Math.ceil(totalItems / itemsPerPage)
totalPagesOf(totalItems, itemsPerPage) == (totalItems + itemsPerPage - 1) \div itemsPerPage

\* Math.max(1, Math.min(page, totalPages))
clampPage(page, totalPages) == Max(1, Min(page, totalPages))

calculatePagination(totalItems, currentPage, itemsPerPage) ==
  [currentPage |-> clampPage(currentPage, totalPagesOf(totalItems, itemsPerPage)),
   itemsPerPage |-> itemsPerPage,
   totalItems |-> totalItems,
   totalPages |-> totalPagesOf(totalItems, itemsPerPage)]

\* data.slice(startIndex, endIndex)
paginateData(rows, currentPage, itemsPerPage) ==
  LET startIndex == (currentPage - 1) * itemsPerPage
      endIndex == Min(startIndex + itemsPerPage, Len(rows))
  IN [i \in 1..Max(0, endIndex - startIndex) |-> rows[startIndex + i]]

\* the useMemo body, for the cells st
filteredAndSorted(st) ==
  LET filteredData == getFilteredData(data, st.searchTerm, st.filterValues)
  IN IF st.sortState.field # NoField
     THEN sortData(filteredData, st.sortState.field, st.sortState.direction)
     ELSE filteredData

processedData(st) ==
  LET filteredData == filteredAndSorted(st)
      pagination == calculatePagination(Len(filteredData), st.currentPage,
                                        st.currentItemsPerPage)
  IN [filteredData |-> filteredData,
      paginatedData |-> paginateData(filteredData, pagination.currentPage,
                                     st.currentItemsPerPage),
      totalItems |-> Len(filteredData),
      totalPages |-> pagination.totalPages]

\* the useState initial values
initialCells(itemsPerPage) ==
  [searchTerm |-> <<>>,
   filterValues |-> NoFilters,
   sortState |-> [field |-> NoField, direction |-> "asc"],
   currentPage |-> 1,
   currentItemsPerPage |-> itemsPerPage]

RECURSIVE SeqsUpTo(_, _)
SeqsUpTo(S, n) ==
  IF n = 0 THEN {<<>>}
  ELSE LET shorter == SeqsUpTo(S, n - 1)
       IN shorter \cup { Append(q, x) : q \in shorter, x \in S }

\* first render of a component that calls the hook
InitTable ==
  /\ pc = "useTableState"
  /\ targetDir = NoArg
  /\ platform = NotRead
  /\ response = NoResponse
  /\ cancelledAt = NotCancelled
  /\ config = NoConfig
  /\ cwd = <<>>
  /\ dirs0 = {}
  /\ files0 = {}
  /\ dirs = {}
  /\ files = {}
  /\ written = {}
  /\ packageJson = NoFile
  /\ execs = <<>>
  /\ shadcnQueue = <<>>
  /\ log = [t \in LogTags |-> 0]
  /\ exitCode = Running
  /\ data \in SeqsUpTo(Rows, MaxRows)
  /\ \E itemsPerPage \in 1..MaxItemsPerPage :
       /\ tableState = initialCells(itemsPerPage)
       /\ pendingState = initialCells(itemsPerPage)
  /\ batched = 0

\* a setter call made by an event handler: state updates queue up in order
\* until the next render
CanCall == pc = "useTableState" /\ batched < MaxBatch

Queued == batched' = batched + 1 /\ UNCHANGED <<pc, runVars, data, tableState>>

setSearchTerm ==
  \E term \in SearchTerms :
    /\ CanCall
    /\ pendingState' = [pendingState EXCEPT !.searchTerm = term, !.currentPage = 1]
    /\ Queued

setFilterValue ==
  \E key \in {"status"}, value \in FilterInputs :
    /\ CanCall
    /\ pendingState' =
         [pendingState EXCEPT
            !.filterValues = [k \in DOMAIN @ \cup {key} |-> IF k = key THEN value ELSE @[k]],
            !.currentPage = 1]
    /\ Queued

resetFilters ==
  /\ CanCall
  /\ pendingState' = [pendingState EXCEPT !.filterValues = NoFilters, !.searchTerm = <<>>,
                                          !.currentPage = 1]
  /\ Queued

toggleSort ==
  \E field \in Fields :
    /\ CanCall
    /\ pendingState' =
         [pendingState EXCEPT
            !.sortState = IF @.field = field
                          THEN [field |-> field,
                                direction |-> IF @.direction = "asc" THEN "desc" ELSE "asc"]
                          ELSE [field |-> field, direction |-> "asc"],
            !.currentPage = 1]
    /\ Queued

\* setPage reads processedData.totalPages of the render its closure belongs to
setPage ==
  \E page \in 0..MaxPage :
    /\ CanCall
    /\ pendingState' =
         [pendingState EXCEPT
            !.currentPage = clampPage(page, processedData(tableState).totalPages)]
    /\ Queued

setItemsPerPage ==
  \E items \in 1..MaxItemsPerPage :
    /\ CanCall
    /\ pendingState' = [pendingState EXCEPT !.currentItemsPerPage = items,
                                             !.currentPage = 1]
    /\ Queued

\* React applies the queued updates and renders again
Render ==
  /\ pc = "useTableState"
  /\ batched > 0
  /\ tableState' = pendingState
  /\ batched' = 0
  /\ UNCHANGED <<pc, runVars, data, pendingState>>

NextTable ==
  \/ setSearchTerm \/ setFilterValue \/ resetFilters \/ toggleSort
  \/ setPage \/ setItemsPerPage \/ Render

\* a mounted component using the hook, with any sequence of handler calls
SpecTable == InitTable /\ [][NextTable]_vars

----------------------------------------------------------------------------
(* The materializer as a function of the flags *)

\* the create* calls of scaffoldProject between setupProjectDirectory and
\* installPackages, in order
materializerOps(f, c) ==
  createPackageJsonOps \o createFolderStructure(f, c) \o createConfigFiles
  \o createCoreFiles(f)
  \o (IF "customInputs" \in c THEN createCustomComponents ELSE << >>)
  \o createSharedComponents(c) \o createLibFiles(f) \o createActionsExample
  \o createStores \o createHooks \o createAppFiles(f)
  \o createConstants \o createTypes \o createSchemas
  \o (IF "docker" \in f THEN createDockerFiles ELSE << >>)
  \o (IF "database" \in f THEN createPrismaFiles ELSE << >>)

emptyDisk == [dirs |-> {}, files |-> {}, written |-> {}, ok |-> TRUE]

\* directories and files the materializer leaves in an empty target root
treeOf(f, c) ==
  LET st == RunOps(emptyDisk, <<>>, materializerOps(f, c)) IN st.dirs \cup st.files

filesOf(f, c) == RunOps(emptyDisk, <<>>, materializerOps(f, c)).files

\* every output of the materializer: the tree and the package.json entries
outputsOf(f, c) ==
  ({"path"} \X treeOf(f, c)) \cup ({"package.json"} \X createPackageJson("p", "npm", f, c))

----------------------------------------------------------------------------
(* Claims *)

HasConfig == "projectName" \in DOMAIN config

\* the paths of ps below the working directory, relative to it
UnderCwd(ps) ==
  {SubSeq(p, Len(cwd) + 1, Len(p)) :
     p \in {q \in ps : Len(q) > Len(cwd) /\ SubSeq(q, 1, Len(cwd)) = cwd}}

MarkerFiles == {<<"package.json">>, <<"next.config.js">>, <<"tsconfig.json">>}

DiskUntouched ==
  dirs = dirs0 /\ files = files0 /\ written = {} /\ execs = <<>> /\ packageJson = NoFile

CountAdd(component) ==
  Cardinality({i \in 1..Len(execs) : execs[i] = addCommand(component)})

Printed(tag) == log[tag] > 0

\* C1: in current-directory mode, when package.json, next.config.js or
\* tsconfig.json exists in the working directory, the run ends with exit
\* status 1 and never creates or modifies a file or directory.
C1_MarkerAbort ==
  (HasConfig /\ config.initInCurrentDir /\ (dirs0 \cup files0) \cap MarkerFiles # {})
    => /\ pc \in {"setupProjectDirectory", "done"}
       /\ DiskUntouched
       /\ cwd = <<>>
       /\ (pc = "done" => exitCode = 1)

C1_Witness ==
  /\ HasConfig /\ config.initInCurrentDir
  /\ <<"tsconfig.json">> \in files0
  /\ pc = "done" /\ exitCode = 1 /\ Printed("conflict")

\* C2: in new-directory mode, when a path named like the project exists, the
\* run ends with exit status 1, creates nothing and does not change the
\* working directory.
C2_TargetExistsAbort ==
  (HasConfig /\ ~config.initInCurrentDir /\ <<config.projectName>> \in dirs0 \cup files0)
    => /\ pc \in {"setupProjectDirectory", "done"}
       /\ DiskUntouched
       /\ cwd = <<>>
       /\ (pc = "done" => exitCode = 1)

C2_Witness ==
  /\ HasConfig /\ ~config.initInCurrentDir
  /\ <<config.projectName>> \in dirs0
  /\ pc = "done" /\ exitCode = 1 /\ Printed("exists")

\* C3: a run whose install subprocess failed still runs the hook setup (when
\* husky is set), the UI-library initializer and the final report, and exits
\* with status 0.
C3_InstallFailureTolerated ==
  (pc = "done" /\ Printed("install-failed"))
    => /\ exitCode = 0
       /\ log["success"] = 1
       /\ Cardinality({i \in 1..Len(execs) : execs[i] = initCommand}) = 1
       /\ ("husky" \in config.features
             => /\ log["husky-ok"] + log["husky-failed"] = 1
                /\ (Printed("husky-ok") => cwd \o <<".husky", "pre-commit">> \in files))

C3_Witness ==
  /\ pc = "done" /\ Printed("install-failed") /\ "husky" \in config.features
  /\ cwd \o <<".husky", "pre-commit">> \in files
  /\ Printed("success") /\ exitCode = 0

\* C4: when the operator aborts the project-name question, the process exits
\* with a non-zero status and creates no file or directory.
C4_CancelAtName ==
  (pc = "done" /\ cancelledAt = 1) => (exitCode # 0 /\ DiskUntouched)

\* C5: for every combination of feature, component, hook and server-action
\* flags, when the materializer has finished the tree it produced is exactly
\* the union of the tree of the all-false configuration and the manifests of
\* the flags that are true: for a feature or component flag what that flag
\* alone adds, for a hook flag the file hooks/<hookName>.ts, for the contacts
\* flag the actions/contacts module.
manifestOf(flag) ==
  IF flag \in HookNames THEN selectedHookFiles({flag})
  ELSE IF flag \in ServerActions
  THEN LET st == RunOps(emptyDisk, <<>>, materializerOps({}, {}) \o createContactActions)
       IN (st.dirs \cup st.files) \ treeOf({}, {})
  ELSE treeOf({flag} \cap Features, {flag} \cap Components) \ treeOf({}, {})

TrueFlags ==
  config.features \cup config.components \cup config.hooks \cup config.serverActions

C5_UnionOfManifests ==
  (pc = "installPackages")
    => UnderCwd(dirs \cup files)
         = UNION ({treeOf({}, {})} \cup {manifestOf(flag) : flag \in TrueFlags})

\* the same, for the configurations whose hook and server-action flags are
\* all false
C5_UnionOfFeatureAndComponentManifests ==
  (pc = "installPackages" /\ config.hooks = {} /\ config.serverActions = {})
    => UnderCwd(dirs \cup files)
         = UNION ({treeOf({}, {})} \cup {manifestOf(flag) : flag \in TrueFlags})

\* C6: with only the database flag true, the files produced are those of the
\* all-false configuration plus exactly prisma/schema.prisma, prisma/seed.ts
\* and lib/db.ts.
PersistenceFiles ==
  {<<"prisma", "schema.prisma">>, <<"prisma", "seed.ts">>, <<"lib", "db.ts">>}

C6_PersistenceOnlyDiff ==
  (pc = "installPackages" /\ config.features = {"database"} /\ config.components = {})
    => UnderCwd(files) \ filesOf({}, {}) = PersistenceFiles

\* C7: no component name is passed to the add command twice, and a component
\* required by several set flags is added exactly once by a finished add loop.
C7_NoDuplicateAdd ==
  /\ \A i, j \in 1..Len(execs) : (i # j /\ IsAdd(execs[i])) => execs[i] # execs[j]
  /\ (pc = "done" /\ Printed("shadcn-ok")
        /\ config.components \cap {"dateTimeInput", "dateRangeInput", "phoneInput"} # {})
       => CountAdd("popover") = 1

C7_Witness ==
  /\ pc = "done"
  /\ {"dateTimeInput", "dateRangeInput", "phoneInput"} \subseteq config.components
  /\ CountAdd("popover") = 1

\* C8: after a successful initializer, every component of the resolved set gets
\* exactly one add attempt, however many of the add subprocesses failed, and
\* each attempt is logged once as done or as failed.
C8_EveryComponentAttempted ==
  (pc \in {"displaySuccessMessage", "done"} /\ HasConfig
     /\ initCommand \in RangeOf(execs) /\ ~Printed("shadcn-failed"))
    => /\ \A component \in RangeOf(shadcnComponents(config.components)) :
            CountAdd(component) = 1
       /\ log["add-ok"] + log["add-failed"] = Len(shadcnComponents(config.components))

C8_Witness ==
  /\ pc = "done" /\ HasConfig
  /\ "dataTable" \in config.components
  /\ log["add-failed"] = Len(shadcnComponents(config.components))
  /\ CountAdd("checkbox") = 1

\* C9: the process exits with a non-zero status exactly when the operator
\* cancelled or the destination validation failed.
C9_ExitStatus ==
  (pc = "done")
    => ((exitCode # 0)
          <=> (cancelledAt # NotCancelled \/ Printed("conflict") \/ Printed("exists")))

\* C10: for a configuration and the one that differs from it in one flag, every
\* output of the block of another flag that is set is the same in both runs.
AllFlags == Features \cup Components
outputsOfFlags(flags) == outputsOf(flags \cap Features, flags \cap Components)

\* the outputs that depend on the flag: those it adds to the all-false
\* configuration and those that go away when it alone is cleared
blockOf(flag) ==
  (outputsOfFlags({flag}) \ outputsOfFlags({}))
  \cup (outputsOfFlags(AllFlags) \ outputsOfFlags(AllFlags \ {flag}))

C10_BlocksIndependent ==
  (pc = "installPackages")
    => LET here == config.features \cup config.components
           mine == ({"path"} \X UnderCwd(dirs \cup files))
                   \cup ({"package.json"} \X packageJson)
       IN \A other \in here : \A flag \in AllFlags \ {other} :
            LET there == IF flag \in here THEN here \ {flag} ELSE here \cup {flag}
            IN blockOf(other) \cap mine = blockOf(other) \cap outputsOfFlags(there)

\* C11: whether the install subprocess succeeded or failed, a finished run with
\* the husky flag set has run the hook setup once: unless the setup failed as a
\* whole, .husky/pre-commit is written and chmod is attempted exactly on the
\* platforms other than win32; a failed chmod or a failed setup is logged and
\* the initializer and the final report still run.  A run with the flag unset
\* never creates .husky and never runs chmod.
CountExec(cmd) == Cardinality({i \in 1..Len(execs) : execs[i] = cmd})

C11_HookSetupBestEffort ==
  /\ (HasConfig /\ "husky" \notin config.features)
       => /\ cwd \o <<".husky">> \notin dirs
          /\ CountExec(chmodCommand) = 0
  /\ (pc = "done" /\ Printed("success") /\ "husky" \in config.features)
       => /\ log["husky-ok"] + log["husky-failed"] = 1
          /\ log["install-ok"] + log["install-failed"] = 1
          /\ Printed("husky-ok")
               => /\ cwd \o <<".husky", "pre-commit">> \in written
                  /\ CountExec(chmodCommand) = (IF platform = "win32" THEN 0 ELSE 1)
          /\ Printed("husky-failed") => CountExec(chmodCommand) = 0
          /\ Printed("chmod-failed") => Printed("husky-ok")
          /\ CountExec(initCommand) = 1
          /\ exitCode = 0

\* chmod failed on a non-Windows platform after a failed install, and the run
\* went on to the initializer and the report
C11_Witness ==
  /\ pc = "done" /\ "husky" \in config.features
  /\ Printed("install-failed") /\ Printed("chmod-failed")
  /\ platform = "linux"
  /\ cwd \o <<".husky", "pre-commit">> \in written
  /\ CountExec(initCommand) = 1 /\ Printed("success")

\* C12: in every run the stages happen in this order, none re-entered:
\* configuration collected (and the destination validated), directory skeleton
\* created, files written, install subprocess, hook setup, UI-library
\* initializer, add calls, summary; and no generated file is written before the
\* directory skeleton has been created.
StageRank(p) ==
  CASE p \in {"start", "answered", "setupProjectDirectory"} -> 0
    [] p = "createFolderStructure" -> 1
    [] p = "installPackages" -> 3
    [] p = "setupAdditionalTools" -> 4
    [] p = "installShadcnComponents" -> 5
    [] p = "addComponent" -> 6
    [] p = "displaySuccessMessage" -> 7
    [] p = "done" -> 8
    [] OTHER -> 2

SkeletonCreated == \A i \in 1..Len(BaseFolders) : cwd \o BaseFolders[i] \in dirs

C12_StagesInOrder ==
  [][/\ StageRank(pc') >= StageRank(pc)
     /\ (pc' = pc => pc = "addComponent")
     /\ (written' # written => SkeletonCreated)]_vars

\* the same order with the write of package.json, which scaffoldProject does
\* first, set apart from the other file writes
C12_StagesInOrderAfterManifest ==
  [][/\ (pc # "createPackageJson" => StageRank(pc') >= StageRank(pc))
     /\ (pc = "createPackageJson" => pc' \in {"createFolderStructure", "done"})
     /\ (pc' = pc => pc = "addComponent")
     /\ (written' # written => (SkeletonCreated \/ pc = "createPackageJson"))]_vars

\* C13: a run that is past the install step has invoked exactly one install
\* subprocess, first of all subprocesses, and its command is 'yarn install' for
\* yarn, 'pnpm install' for pnpm and 'npm install' for npm.
IsInstall(cmd) == Len(cmd) = 2 /\ cmd[2] = "install"

C14_CancelAtAnyPrompt ==
  (pc = "done" /\ cancelledAt > 1 /\ cancelledAt # NotCancelled)
    => /\ Printed("cancelled")
       /\ exitCode # 0
       /\ ~HasConfig
       /\ DiskUntouched

\* the part of it that holds: an aborted run never starts scaffolding
C14_CancelNeverScaffolds ==
  (cancelledAt # NotCancelled) => (~HasConfig /\ DiskUntouched /\ cwd = <<>>)

\* C15: the project-name validator rejects an empty name when the working
\* directory is not empty, accepts an empty name when the working directory is
\* empty, and accepts every non-empty name, "." and "./" included; so the name
\* the prompt returns is one the rule accepts.
ClaimedValid(value, empty) == IF value = "" THEN empty ELSE TRUE

C15_ValidatorContract ==
  /\ \A value \in NameAnswers, empty \in BOOLEAN :
        validate(value, empty) = ClaimedValid(value, empty)
  /\ (pc = "answered" /\ "projectName" \in response.keys)
       => ClaimedValid(response.projectName, dirs0 = {} /\ files0 = {})

\* what the validator does: it accepts exactly the non-empty names, whatever
\* the working directory holds
C15_ValidatorRequiresName ==
  /\ \A value \in NameAnswers, empty \in BOOLEAN : validate(value, empty) = (value # "")
  /\ (pc = "answered" /\ "projectName" \in response.keys) => response.projectName # ""

\* C16: every feature flag and every component flag has its own contribution
\* to the generated tree: a run with only that flag set leaves at least one file
\* or directory that the all-false run does not, and in every run the paths a
\* set flag adds on its own are present.
GeneratedTree == UnderCwd((dirs \cup files) \ (dirs0 \cup files0))

Contributes(flags) ==
  /\ (Cardinality(TrueFlags) = 1 /\ TrueFlags \subseteq flags)
       => GeneratedTree \ treeOf({}, {}) # {}
  /\ \A flag \in TrueFlags \cap flags : manifestOf(flag) \subseteq GeneratedTree

C16_EveryFlagContributes ==
  (pc = "displaySuccessMessage" /\ ~Printed("husky-failed")) => Contributes(AllFlags)

\* the same for the flags other than linting and betterAuth, which add no path
C16_FlagsWithPathsContribute ==
  (pc = "displaySuccessMessage" /\ ~Printed("husky-failed"))
    => Contributes(AllFlags \ {"linting", "betterAuth"})

\* C17: once the materializer has finished, for each of the 23 hook flags the
\* file hooks/<hookName>.ts exists if and only if that flag is true, and
\* hooks/use-actions.ts and hooks/use-custom-navigate.ts exist for every flag
\* combination.
AlwaysHookFiles == {<<"hooks", "use-actions.ts">>, <<"hooks", "use-custom-navigate.ts">>}

C17_HookFilePerFlag ==
  (pc = "installPackages")
    => /\ \A h \in HookNames :
            (selectedHookFiles({h}) \subseteq UnderCwd(written)) <=> (h \in config.hooks)
       /\ AlwaysHookFiles \subseteq UnderCwd(written)

\* what the run does: the always-present hook files and no other file under hooks
C17_OnlyAlwaysHookFiles ==
  (pc = "installPackages")
    => {p \in UnderCwd(files) : p[1] = "hooks"} = AlwaysHookFiles

\* C18: once the materializer has finished, the contacts module's action files
\* under actions/contacts/ exist, and the Contact model block is in
\* prisma/schema.prisma, if and only if the contacts server-action flag is true.
contactFiles ==
  RunOps(emptyDisk, <<>>, MkdirAll(<< <<"actions">> >>) \o createContactActions).files

schemaBlocks ==
  IF cwd \o <<"prisma", "schema.prisma">> \in written THEN prismaSchemaModels ELSE {}

C18_ServerActionModule ==
  (pc = "installPackages")
    => /\ (contactFiles \subseteq UnderCwd(written)) <=> ("contacts" \in config.serverActions)
       /\ ("Contact" \in schemaBlocks) <=> ("contacts" \in config.serverActions)

\* what the run does: no file under actions/contacts and no Contact block,
\* whatever the flag
C18_NoServerActionModule ==
  (pc = "installPackages")
    => /\ contactFiles \cap UnderCwd(files) = {}
       /\ cwd \o <<"actions", "contacts">> \notin dirs
       /\ "Contact" \notin schemaBlocks

\* C19: the generated .env.example holds NEXT_PUBLIC_APP_URL always,
\* DATABASE_URL if and only if the database flag is set, the BETTER_AUTH_* and
\* GOOGLE_* variables if and only if the betterAuth flag is set, the SMTP_*
\* variables if and only if the nodemailer flag is set, and nothing else.
envExampleWritten ==
  IF cwd \o <<".env.example">> \in written THEN envExample ELSE {}

AuthVars == {"BETTER_AUTH_URL", "BETTER_AUTH_SECRET", "GOOGLE_CLIENT_ID", "GOOGLE_CLIENT_SECRET"}
SmtpVars == {"SMTP_HOST", "SMTP_PORT", "SMTP_USER", "SMTP_PASSWORD", "SMTP_FROM_NAME",
             "SMTP_FROM_EMAIL"}

C19_EnvOnlySelected ==
  (pc = "installPackages")
    => envExampleWritten
         = {"NEXT_PUBLIC_APP_URL"}
           \cup (IF "database" \in config.features THEN {"DATABASE_URL"} ELSE {})
           \cup (IF "betterAuth" \in config.features THEN AuthVars ELSE {})
           \cup (IF "nodemailer" \in config.features THEN SmtpVars ELSE {})

\* what the run does: every variable is listed, whatever the flags
C19_EnvAllVariables ==
  (pc = "installPackages")
    => envExampleWritten = {"NEXT_PUBLIC_APP_URL", "DATABASE_URL"} \cup AuthVars \cup SmtpVars

\* C20: in the generated package.json the dev, build and start scripts are
\* always present, and each optional entry is present if and only if its
\* selection is set: the lint, format and type-check scripts and the lint
\* devDependencies with linting; the setup and db:* scripts, @prisma/client and
\* the prisma tooling with database; the prepare script and the husky and
\* lint-staged devDependencies with husky; better-auth with betterAuth;
\* nodemailer with nodemailer; react-number-format with priceInput;
\* react-phone-number-input with phoneInput.
OptionalEntries ==
  [linting |-> {"scripts.lint", "scripts.lint:fix", "scripts.format", "scripts.format:check",
                "scripts.type-check", "devDependencies.eslint",
                "devDependencies.eslint-config-next", "devDependencies.prettier"},
   database |-> {"scripts.setup", "scripts.db:push", "scripts.db:seed", "scripts.db:generate",
                 "scripts.db:studio", "dependencies.@prisma/client", "devDependencies.prisma"},
   husky |-> {"scripts.prepare", "devDependencies.husky", "devDependencies.lint-staged"},
   betterAuth |-> {"dependencies.better-auth"},
   nodemailer |-> {"dependencies.nodemailer"},
   priceInput |-> {"dependencies.react-number-format"},
   phoneInput |-> {"dependencies.react-phone-number-input"}]

C20_PackageJsonEntries ==
  (packageJson # NoFile)
    => /\ {"scripts.dev", "scripts.build", "scripts.start"} \subseteq packageJson
       /\ \A flag \in DOMAIN OptionalEntries : \A entry \in OptionalEntries[flag] :
            (entry \in packageJson) <=> (flag \in TrueFlags)

C20_Witness ==
  /\ pc = "installPackages"
  /\ config.features = {"database"} /\ config.components = {"priceInput", "phoneInput"}
  /\ {"scripts.setup", "dependencies.react-number-format",
      "dependencies.react-phone-number-input"} \subseteq packageJson
  /\ "scripts.lint" \notin packageJson

\* C21: when the configuration record is built, with a directory argument the
\* name question was skipped, the project name is the argument and the mode is
\* new-directory; without one the name was asked, the mode is current-directory
\* exactly when the answer is empty, ".", "./", or the current directory's name
\* while that directory is empty, and then the project name is the current
\* directory's name, otherwise the answer.
C21_NameAndMode ==
  [][(pc = "answered" /\ "projectName" \in DOMAIN config')
       => LET name == response.projectName
              empty == dirs0 = {} /\ files0 = {}
              here == name \in {"", ".", "./"} \/ (empty /\ name = CurrentDirName)
          IN IF targetDir # NoArg
             THEN /\ "projectName" \notin response.keys
                  /\ config'.projectName = targetDir
                  /\ ~config'.initInCurrentDir
             ELSE /\ "projectName" \in response.keys
                  /\ config'.initInCurrentDir <=> here
                  /\ config'.projectName = (IF here THEN CurrentDirName ELSE name)]_vars

\* the current directory's name was answered in a directory that is not empty:
\* new-directory mode
C21_Witness ==
  /\ HasConfig /\ targetDir = NoArg
  /\ dirs0 \cup files0 # {}
  /\ config.projectName = CurrentDirName /\ ~config.initInCurrentDir

\* C22: a finished run whose report was printed printed '<packageManager> run
\* setup' exactly when the database flag is set, and then package.json defines
\* a setup script, and '<packageManager> run dev' otherwise; it printed 'cd
\* <projectName>' exactly when the run was not in current-directory mode; and
\* it exited with status 0.
SetupLine ==
  [pnpm |-> "pnpm run setup", yarn |-> "yarn run setup", npm |-> "npm run setup"]
DevLine == [pnpm |-> "pnpm run dev", yarn |-> "yarn run dev", npm |-> "npm run dev"]
NextStepLines == RangeOfFn(SetupLine) \cup RangeOfFn(DevLine)

C22_FinalReport ==
  /\ (pc = "done" /\ Printed("success"))
       => LET pm == config.packageManager
              line == IF "database" \in config.features THEN SetupLine[pm] ELSE DevLine[pm]
          IN /\ log["success"] = 1
             /\ \A l \in NextStepLines : log[l] = (IF l = line THEN 1 ELSE 0)
             /\ "database" \in config.features => "scripts.setup" \in packageJson
             /\ log["cd"] = (IF config.initInCurrentDir THEN 0 ELSE 1)
             /\ exitCode = 0
  /\ ~Printed("success") => (\A l \in NextStepLines \cup {"cd"} : log[l] = 0)

C22_Witness ==
  /\ pc = "done" /\ Printed("success")
  /\ "database" \in config.features /\ config.packageManager = "yarn"
  /\ ~config.initInCurrentDir
  /\ Printed("yarn run setup") /\ Printed("cd")

\* C23: the working directory changes at most once: only in new-directory
\* mode, in the step that passed validation, into the new project directory and
\* before any file is written; never in current-directory mode; and every file
\* and directory the run creates lies under the target root.
TargetRoot ==
  IF HasConfig /\ ~config.initInCurrentDir THEN <<config.projectName>> ELSE <<>>

Under(root, path) ==
  Len(path) > Len(root) /\ SubSeq(path, 1, Len(root)) = root

C23_WorkingDirectory ==
  /\ [](/\ cwd \in {<<>>, TargetRoot}
        /\ \A path \in written \cup (files \ files0) :
             Under(cwd, path) /\ Under(TargetRoot, path)
        /\ \A path \in dirs \ dirs0 : path = TargetRoot \/ Under(TargetRoot, path))
  /\ [][cwd' # cwd
          => /\ cwd = <<>>
             /\ pc = "setupProjectDirectory" /\ pc' = "createPackageJson"
             /\ ~config.initInCurrentDir
             /\ cwd' = <<config.projectName>>
             /\ cwd' \notin dirs0 \cup files0
             /\ written = {} /\ files = files0]_vars

C23_Witness ==
  /\ pc = "done" /\ Printed("success")
  /\ cwd = <<"my-app">>
  /\ <<"my-app", "app", "page.tsx">> \in written
  /\ <<"my-app", ".husky", "pre-commit">> \in written

\* C24: a run never overwrites a file that existed before the run: no path it
\* writes was a file when the process started.
C24_NoOverwrite == written \cap files0 = {}

\* what validation guarantees: the three marker files are never overwritten
C24_MarkersNotOverwritten == written \cap files0 \cap MarkerFiles = {}

\* C25: for every flag combination no write of the materializer fails for a
\* missing directory: every file the run wrote lies in the project root or in
\* a directory created earlier in the same run, and when the materializer has
\* finished every file of the configuration has been written.
C25_DirectoryBeforeWrite ==
  /\ ~Printed("error")
  /\ \A path \in written : Parent(path) = cwd \/ Parent(path) \in dirs \ dirs0
  /\ (pc = "installPackages")
       => UnderCwd(written) = filesOf(config.features, config.components)

C25_Witness ==
  /\ pc = "installPackages"
  /\ "database" \in config.features
  /\ {"fileUpload", "dataTable"} \subseteq config.components
  /\ cwd \o <<"prisma", "schema.prisma">> \in written
  /\ cwd \o InputsDir \o <<"FileUpload.tsx">> \in written
  /\ cwd \o DataTableDir \o <<"hooks", "useTableState.ts">> \in written

\* C26: when the UI-library initializer subprocess failed, no add subprocess is
\* invoked in that run, the manual-install hint is logged once, and the run
\* goes on to print the final report and exits with status 0.
C26_InitFailureSkipsAdds ==
  Printed("shadcn-failed")
    => /\ log["shadcn-failed"] = 1
       /\ CountExec(initCommand) = 1
       /\ \A i \in 1..Len(execs) : ~IsAdd(execs[i])
       /\ log["add-ok"] + log["add-failed"] = 0 /\ ~Printed("shadcn-ok")
       /\ shadcnQueue = << >>
       /\ pc \in {"displaySuccessMessage", "done"}
       /\ (pc = "done") => (log["success"] = 1 /\ exitCode = 0)

C26_Witness ==
  /\ pc = "done" /\ Printed("shadcn-failed")
  /\ "dataTable" \in config.components
  /\ execs[Len(execs)] = initCommand
  /\ Printed("success") /\ exitCode = 0

\* C27: for every component-flag combination the UI-library step runs the
\* initializer once; when it succeeded the add calls start with form, input,
\* label and button, in this order, before any flag-dependent component; the
\* resolved set is never empty, so 'No shadcn/ui components needed' is never
\* printed.
CoreComponents == <<"form", "input", "label", "button">>

C27_CoreComponentsFirst ==
  LET adds == SelectSeq(execs, IsAdd)
  IN /\ ~Printed("no-components")
     /\ CountExec(initCommand)
          = (IF StageRank(pc) > StageRank("installShadcnComponents")
                /\ (pc = "done" => Printed("success")) THEN 1 ELSE 0)
     /\ \A k \in 1..Len(adds) :
          IF k <= Len(CoreComponents)
          THEN adds[k] = addCommand(CoreComponents[k])
          ELSE \A j \in 1..Len(CoreComponents) : adds[k] # addCommand(CoreComponents[j])
     /\ (pc = "displaySuccessMessage" \/ (pc = "done" /\ Printed("success")))
          => (Printed("shadcn-failed") \/ Len(adds) >= Len(CoreComponents))

\* every component flag false: the four core components are still added
C27_Witness ==
  /\ pc = "done" /\ Printed("shadcn-ok")
  /\ config.components = {}
  /\ SelectSeq(execs, IsAdd)
       = <<addCommand("form"), addCommand("input"), addCommand("label"), addCommand("button")>>

\* C28: whenever a run has written a .husky/pre-commit hook that invokes
\* lint-staged, the package.json of the same run contains the lint-staged
\* configuration block and the lint-staged devDependency.
HookInvokesLintStaged ==
  /\ HasConfig
  /\ cwd \o <<".husky", "pre-commit">> \in written
  /\ "lint-staged" \in RangeOf(preCommitHook(config.packageManager))

C28_LintStagedConfigured ==
  HookInvokesLintStaged
    => {"lint-staged", "devDependencies.lint-staged"} \subseteq packageJson

\* what the run does: the devDependency comes with the hook, the configuration
\* block only when the linting flag is set as well
C28_LintStagedBlockNeedsLinting ==
  HookInvokesLintStaged
    => /\ "devDependencies.lint-staged" \in packageJson
       /\ ("lint-staged" \in packageJson) <=> ("linting" \in config.features)

\* C29: when every prompt is eventually answered or aborted and every
\* subprocess eventually exits, the run terminates; it ends either without
\* having started the post-install steps (abort, validation failure) or after
\* the final report; and a finished add loop has made exactly as many add
\* calls as the resolved component set has elements.
C29_Terminates ==
  /\ <>(pc = "done")
  /\ [](pc = "done" => (Printed("success") \/ execs = <<>>))
  /\ [](Printed("shadcn-ok")
          => Len(SelectSeq(execs, IsAdd)) = Len(shadcnComponents(config.components)))

C29_Witness ==
  /\ pc = "done" /\ Printed("success") /\ Printed("shadcn-ok")
  /\ Printed("add-failed")
  /\ Len(SelectSeq(execs, IsAdd)) = Len(shadcnComponents(config.components))
  /\ Len(shadcnComponents(config.components)) > Len(CoreComponents)

\* the rows shown, the page stored and the number of pages, as of the last render
Mounted == pc = "useTableState"
storedPage == tableState.currentPage
shownRows == processedData(tableState).paginatedData
pageCount == processedData(tableState).totalPages
sliceOf(rows, page, size) ==
  LET idx == SelectSeq([i \in 1..Len(rows) |-> i],
                       LAMBDA i : (page - 1) * size < i /\ i <= page * size)
  IN [k \in 1..Len(idx) |-> rows[idx[k]]]

\* C30: in useTableState, after any sequence of setter calls (several of them
\* possibly made before the next render), the stored current page lies
\* between 1 and max(1, totalPages), and the paginated rows are the slice of
\* the filtered and sorted rows for that stored page, at most itemsPerPage of
\* them.
C30_StoredPageInRange ==
  Mounted =>
    /\ 1 <= storedPage /\ storedPage <= Max(1, pageCount)
    /\ Len(shownRows) <= tableState.currentItemsPerPage
    /\ shownRows = sliceOf(filteredAndSorted(tableState), storedPage,
                           tableState.currentItemsPerPage)

\* what the hook guarantees instead: the stored page is at least 1, and the
\* rows shown are the slice for the stored page brought back into range
C30_ShownPageInRange ==
  Mounted =>
    /\ 1 <= storedPage
    /\ Len(shownRows) <= tableState.currentItemsPerPage
    /\ shownRows = sliceOf(filteredAndSorted(tableState),
                           Max(1, Min(storedPage, pageCount)),
                           tableState.currentItemsPerPage)

\* a single setter call on a page in range queues a page in range
C30_SingleCallKeepsPageInRange ==
  (Mounted /\ batched = 1 /\ storedPage <= Max(1, pageCount))
    => pendingState.currentPage <= Max(1, processedData(pendingState).totalPages)

====
